---- MODULE Spec2Model ----
(***************************************************************************)
(* Model of wgpu-native/src/hub.rs: Id, IdentityManager (alloc/free),      *)
(* Storage (index/contains over a VecMap of (value, epoch)) and Registry   *)
(* (register / register_local / unregister behind a Mutex and an RwLock).  *)
(*                                                                         *)
(* A panic (failed assert!, assert_eq!, unwrap, out-of-bounds index,       *)
(* arithmetic overflow in a debug build) ends the call with the tag of the *)
(* panicking site; parking_lot locks are not poisoned and the guard is     *)
(* dropped by unwinding, so the Registry stays usable afterwards.          *)
(***************************************************************************)
EXTENDS Integers, Sequences, FiniteSets, Bags, TLC

(* ------------------------------ bounds -------------------------------- *)
NumThreads == 2          \* threads calling into one Registry
MaxCalls == 3            \* calls started on one Registry
MaxIMCalls == 7          \* calls made on a bare IdentityManager
EachCalls == 2           \* register_local calls per thread in SpecReg
MaxExtCalls == 2         \* calls started on a Registry without feature "local"
MaxProbeCalls == 1       \* lookups made on one slot table in SpecProbe
MaxLiveCalls == 2        \* calls started in SpecLive
WrapEpochMod == 2        \* number of values of a narrow Epoch, in SpecWrap
NumExtIndices == 2       \* indices of the identities issued outside
NumExtEpochs == 2        \* epochs of the identities issued outside
WideEpochMod == 64       \* stands for 2^32 (Epoch = u32): out of reach of the call bounds

Threads == 1..NumThreads

VARIABLES
    debug,      \* cfg!(debug_assertions) of the build
    local,      \* cfg(feature = "local") of the build
    epochMod,   \* number of values of Epoch
    free,       \* IdentityManager.free  : Vec<Index>
    epochs,     \* IdentityManager.epochs: Vec<Epoch>, index i at position i+1
    map,        \* Storage.map: VecMap<(T, Epoch)>, a function on the occupied keys
    identity,   \* holders of Registry.identity (Mutex): no thread or one
    writer,     \* holders of Registry.data for writing: no thread or one
    readers,    \* holders of Registry.data for reading
    pc,         \* position of each thread inside its call
    cur,        \* the call each thread is in: [op, id, value]
    res,        \* the last call each thread finished: [op, id, value, out, ret, hit, slot]
    calls,      \* number of calls each thread has started
    issued,     \* bag of [id, value] handed to callers by register_local (alloc: no value)
    freed       \* bag of ids for which IdentityManager::free succeeded

vars == <<debug, local, epochMod, free, epochs, map, identity, writer, readers,
          pc, cur, res, calls, issued, freed>>

imVars == <<free, epochs>>
lockVars == <<identity, writer, readers>>
buildVars == <<debug, local, epochMod>>

(* ------------------------------- Id ----------------------------------- *)
NewId(index, epoch) == [index |-> index, epoch |-> epoch]

NoId == [index |-> 0, epoch |-> 0]

Range(s) == {s[i] : i \in 1..Len(s)}

Front(s) == SubSeq(s, 1, Len(s) - 1)

(* -------------------------- IdentityManager --------------------------- *)
\* alloc that reads the last free index without popping it
alloc_without_pop(fr, ep) ==
    IF Len(fr) > 0
    THEN [id |-> NewId(fr[Len(fr)], ep[fr[Len(fr)] + 1]),
          free |-> fr, epochs |-> ep]
    ELSE [id |-> NewId(Len(ep), 1),
          free |-> fr, epochs |-> Append(ep, 1)]

\* alloc that hands out a fresh index without recording its epoch
alloc_without_push(fr, ep) ==
    IF Len(fr) > 0
    THEN [id |-> NewId(fr[Len(fr)], ep[fr[Len(fr)] + 1]),
          free |-> Front(fr), epochs |-> ep]
    ELSE [id |-> NewId(Len(ep), 1),
          free |-> fr, epochs |-> ep]

\* alloc that reuses the oldest free index instead of the last one pushed
alloc_from_front(fr, ep) ==
    IF Len(fr) > 0
    THEN [id |-> NewId(fr[1], ep[fr[1] + 1]),
          free |-> SubSeq(fr, 2, Len(fr)), epochs |-> ep]
    ELSE [id |-> NewId(Len(ep), 1),
          free |-> fr, epochs |-> Append(ep, 1)]

\* alloc that bumps the epoch of the index it reuses (bump at alloc time)
alloc_bumping_epoch(fr, ep) ==
    IF Len(fr) > 0
    THEN [id |-> NewId(fr[Len(fr)], ep[fr[Len(fr)] + 1] + 1),
          free |-> Front(fr),
          epochs |-> [ep EXCEPT ![fr[Len(fr)] + 1] = @ + 1]]
    ELSE [id |-> NewId(Len(ep), 1),
          free |-> fr, epochs |-> Append(ep, 1)]

\* pub fn alloc(&mut self) -> Id
IdentityManager_alloc(fr, ep) ==
    IF Len(fr) > 0
    THEN [id |-> NewId(fr[Len(fr)], ep[fr[Len(fr)] + 1]),
          free |-> Front(fr), epochs |-> ep]
    ELSE [id |-> NewId(Len(ep), 1),
          free |-> fr, epochs |-> Append(ep, 1)]

\* free without the assert_eq!(*pe, epoch) of line 84
free_without_epoch_check(fr, ep, dbg, md, id) ==
    IF dbg /\ id.index \in Range(fr)
    THEN [out |-> "assert_not_in_free", free |-> fr, epochs |-> ep]
    ELSE IF id.index >= Len(ep)
    THEN [out |-> "index_out_of_bounds", free |-> fr, epochs |-> ep]
    ELSE [out |-> "ok",
          free |-> Append(fr, id.index),
          epochs |-> [ep EXCEPT ![id.index + 1] = (ep[id.index + 1] + 1) % md]]

\* free that takes an index it has no epoch for as free, without the bounds
\* check of self.epochs[index]
free_without_bounds_check(fr, ep, dbg, md, id) ==
    IF dbg /\ id.index \in Range(fr)
    THEN [out |-> "assert_not_in_free", free |-> fr, epochs |-> ep]
    ELSE IF id.index >= Len(ep)
    THEN [out |-> "ok", free |-> Append(fr, id.index), epochs |-> ep]
    ELSE IF ep[id.index + 1] # id.epoch
    THEN [out |-> "assert_eq_epoch", free |-> fr, epochs |-> ep]
    ELSE IF dbg /\ ep[id.index + 1] + 1 >= md
    THEN [out |-> "add_overflow", free |-> fr, epochs |-> ep]
    ELSE [out |-> "ok",
          free |-> Append(fr, id.index),
          epochs |-> [ep EXCEPT ![id.index + 1] = (ep[id.index + 1] + 1) % md]]

\* free whose increment of the stored epoch saturates at the last value of Epoch
free_saturating(fr, ep, dbg, md, id) ==
    IF dbg /\ id.index \in Range(fr)
    THEN [out |-> "assert_not_in_free", free |-> fr, epochs |-> ep]
    ELSE IF id.index >= Len(ep)
    THEN [out |-> "index_out_of_bounds", free |-> fr, epochs |-> ep]
    ELSE IF ep[id.index + 1] # id.epoch
    THEN [out |-> "assert_eq_epoch", free |-> fr, epochs |-> ep]
    ELSE [out |-> "ok",
          free |-> Append(fr, id.index),
          epochs |-> [ep EXCEPT ![id.index + 1] =
                         IF ep[id.index + 1] + 1 >= md THEN md - 1
                         ELSE ep[id.index + 1] + 1]]

\* pub fn free(&mut self, Id(index, epoch): Id); dbg is cfg!(debug_assertions),
\* md the number of values of Epoch (`*pe += 1` panics on overflow in a debug
\* build, where overflow checks follow debug_assertions, and wraps otherwise).
IdentityManager_free(fr, ep, dbg, md, id) ==
    IF dbg /\ id.index \in Range(fr)
    THEN [out |-> "assert_not_in_free", free |-> fr, epochs |-> ep]
    ELSE IF id.index >= Len(ep)
    THEN [out |-> "index_out_of_bounds", free |-> fr, epochs |-> ep]
    ELSE IF ep[id.index + 1] # id.epoch
    THEN [out |-> "assert_eq_epoch", free |-> fr, epochs |-> ep]
    ELSE IF dbg /\ ep[id.index + 1] + 1 >= md
    THEN [out |-> "add_overflow", free |-> fr, epochs |-> ep]
    ELSE [out |-> "ok",
          free |-> Append(fr, id.index),
          epochs |-> [ep EXCEPT ![id.index + 1] = (ep[id.index + 1] + 1) % md]]

(* ------------------------------ Storage ------------------------------- *)
\* Option<(T, Epoch)>: None is <<>>, Some(e) is <<e>>
None == <<>>

Some(e) == <<e>>

Entry(value, epoch) == [value |-> value, epoch |-> epoch]

\* VecMap::get
VecMap_get(m, key) == IF key \in DOMAIN m THEN Some(m[key]) ELSE None

\* VecMap::insert: the new entry replaces the old one, which is returned
VecMap_insert(m, key, e) ==
    [old |-> VecMap_get(m, key),
     map |-> [k \in DOMAIN m \cup {key} |-> IF k = key THEN e ELSE m[k]]]

\* VecMap::remove
VecMap_remove(m, key) ==
    [old |-> VecMap_get(m, key),
     map |-> [k \in DOMAIN m \ {key} |-> m[k]]]

\* index without the assert_eq!(epoch, id.id().1) of line 100
index_without_epoch_check(m, id) ==
    IF VecMap_get(m, id.index) = None
    THEN [out |-> "key_not_present", ret |-> None]
    ELSE [out |-> "ok", ret |-> Some(m[id.index].value)]

\* impl ops::Index<I> for Storage (and IndexMut: the same checks)
Storage_index(m, id) ==
    IF VecMap_get(m, id.index) = None
    THEN [out |-> "key_not_present", ret |-> None]
    ELSE IF m[id.index].epoch # id.epoch
    THEN [out |-> "assert_eq_epoch", ret |-> None]
    ELSE [out |-> "ok", ret |-> Some(m[id.index].value)]

\* contains that looks at the occupancy of the slot only
contains_without_epoch_check(m, id) ==
    VecMap_get(m, id.index) # None

\* Storage::contains
Storage_contains(m, id) ==
    /\ VecMap_get(m, id.index) # None
    /\ m[id.index].epoch = id.epoch

(* ------------------------------ Registry ------------------------------ *)
\* Registry::register, the statement under data.write() and the assert after it
Registry_register(m, id, value) ==
    LET r == VecMap_insert(m, id.index, Entry(value, id.epoch))
    IN  [out |-> IF r.old = None THEN "ok" ELSE "assert_old_is_none",
         map |-> r.map, slot |-> r.old]

\* unregister without the assert_eq!(epoch, id.id().1) of line 172
remove_without_epoch_check(m, id) ==
    LET r == VecMap_remove(m, id.index)
    IN  IF r.old = None
        THEN [out |-> "unwrap_none", ret |-> None, map |-> r.map, slot |-> r.old]
        ELSE [out |-> "ok", ret |-> Some(r.old[1].value), map |-> r.map, slot |-> r.old]

\* Registry::unregister, the statement under data.write() and the assert after it
Registry_remove(m, id) ==
    LET r == VecMap_remove(m, id.index)
    IN  IF r.old = None
        THEN [out |-> "unwrap_none", ret |-> None, map |-> r.map, slot |-> r.old]
        ELSE IF r.old[1].epoch # id.epoch
        THEN [out |-> "assert_eq_epoch", ret |-> None, map |-> r.map, slot |-> r.old]
        ELSE [out |-> "ok", ret |-> Some(r.old[1].value), map |-> r.map, slot |-> r.old]

(* --------------------------- calls and results ------------------------ *)
Call(op, id, value) == [op |-> op, id |-> id, value |-> value]

NoCall == Call("none", NoId, None)

Result(c, id, out, ret, hit, slot) ==
    [op |-> c.op, id |-> id, value |-> c.value, out |-> out, ret |-> ret,
     hit |-> hit, slot |-> slot]

NoResult == Result(NoCall, NoId, "none", None, FALSE, None)

RECURSIVE SumCalls(_, _)
SumCalls(c, n) == IF n = 0 THEN 0 ELSE c[n] + SumCalls(c, n - 1)

Started == SumCalls(calls, NumThreads)

IssuedIds == {e.id : e \in BagToSet(issued)}

One(x) == SetToBag({x})

(* ------------------------------- Init --------------------------------- *)
InitRegistry ==
    /\ free = <<>>
    /\ epochs = <<>>
    /\ map = <<>>
    /\ identity = {}
    /\ writer = {}
    /\ readers = {}
    /\ pc = [t \in Threads |-> "idle"]
    /\ cur = [t \in Threads |-> NoCall]
    /\ res = [t \in Threads |-> NoResult]
    /\ calls = [t \in Threads |-> 0]
    /\ issued = EmptyBag
    /\ freed = EmptyBag

\* a build with feature "local": identities are allocated by the Registry
Init ==
    /\ debug \in BOOLEAN
    /\ local = TRUE
    /\ epochMod = WideEpochMod
    /\ InitRegistry

(* ------------------------------ locks --------------------------------- *)
\* self.identity.lock()
LockIdentity(t) ==
    /\ pc[t] \in {"rl_lock", "un_lock"}
    /\ identity = {}
    /\ identity' = {t}
    /\ pc' = [pc EXCEPT ![t] = IF pc[t] = "rl_lock" THEN "rl_alloc" ELSE "un_free"]
    /\ UNCHANGED <<buildVars, imVars, map, writer, readers, cur, res, calls, issued, freed>>

\* self.data.write()
LockWrite(t) ==
    /\ pc[t] \in {"reg_lock", "rm_lock"}
    /\ writer = {}
    /\ readers = {}
    /\ writer' = {t}
    /\ pc' = [pc EXCEPT ![t] = IF pc[t] = "reg_lock" THEN "reg_insert" ELSE "rm_remove"]
    /\ UNCHANGED <<buildVars, imVars, map, identity, readers, cur, res, calls, issued, freed>>

\* registry.read(), through Deref<Target = RwLock<Storage>>
LockRead(t) ==
    /\ pc[t] = "rd_lock"
    /\ writer = {}
    /\ readers' = readers \cup {t}
    /\ pc' = [pc EXCEPT ![t] = "rd_read"]
    /\ UNCHANGED <<buildVars, imVars, map, identity, writer, cur, res, calls, issued, freed>>

(* ------------------------- starting a call ---------------------------- *)
BeginCall(t, c, at) ==
    /\ pc[t] = "idle"
    /\ calls' = [calls EXCEPT ![t] = @ + 1]
    /\ cur' = [cur EXCEPT ![t] = c]
    /\ pc' = [pc EXCEPT ![t] = at]
    /\ UNCHANGED <<buildVars, imVars, map, lockVars, res, issued, freed>>

Begin(t, c, at) ==
    /\ Started < (IF local THEN MaxCalls ELSE MaxExtCalls)
    /\ BeginCall(t, c, at)

\* the payload a call brings: a fresh object, told apart by the calling thread
\* and the number of the call in that thread
Fresh(t) == <<t, calls[t] + 1>>

\* Registry::register_local(value)
StartRegisterLocal(t) ==
    /\ local
    /\ Begin(t, Call("register_local", NoId, Some(Fresh(t))), "rl_lock")

\* Registry::register(id, value) with an identity issued outside (no feature "local")
StartRegister(t, id) ==
    /\ ~local
    /\ Begin(t, Call("register", id, Some(Fresh(t))), "reg_lock")

\* Registry::unregister(id)
StartUnregister(t, id) ==
    Begin(t, Call("unregister", id, None), IF local THEN "un_lock" ELSE "rm_lock")

\* registry.read().contains(id)
StartContains(t, id) ==
    Begin(t, Call("contains", id, None), "rd_lock")

\* registry.read()[id]
StartGet(t, id) ==
    Begin(t, Call("get", id, None), "rd_lock")

(* ------------------------- steps under a lock ------------------------- *)
\* an alloc step whose guard on the mutex lives on to the end of register_local
alloc_keeping_the_mutex(t) ==
    /\ pc[t] = "rl_alloc"
    /\ identity = {t}
    /\ LET a == IdentityManager_alloc(free, epochs)
       IN  /\ free' = a.free
           /\ epochs' = a.epochs
           /\ cur' = [cur EXCEPT ![t].id = a.id]
    /\ pc' = [pc EXCEPT ![t] = "reg_lock"]
    /\ UNCHANGED <<buildVars, map, identity, writer, readers, res, calls, issued, freed>>

\* line 162: self.identity.lock().alloc(), the guard dropped at the end of it
AllocStep(t) ==
    /\ pc[t] = "rl_alloc"
    /\ identity = {t}
    /\ LET a == IdentityManager_alloc(free, epochs)
       IN  /\ free' = a.free
           /\ epochs' = a.epochs
           /\ cur' = [cur EXCEPT ![t].id = a.id]
    /\ identity' = {}
    /\ pc' = [pc EXCEPT ![t] = "reg_lock"]
    /\ UNCHANGED <<buildVars, map, writer, readers, res, calls, issued, freed>>

\* an insert step whose write guard is never dropped
insert_keeping_the_lock(t) ==
    /\ pc[t] = "reg_insert"
    /\ writer = {t}
    /\ LET r == Registry_register(map, cur[t].id, cur[t].value[1])
       IN  /\ map' = r.map
           /\ res' = [res EXCEPT ![t] =
                        Result(cur[t], cur[t].id, r.out, None, FALSE, r.slot)]
           /\ issued' = IF r.out = "ok" /\ cur[t].op = "register_local"
                        THEN issued (+) One([id |-> cur[t].id, value |-> cur[t].value])
                        ELSE issued
    /\ pc' = [pc EXCEPT ![t] = "idle"]
    /\ cur' = [cur EXCEPT ![t] = NoCall]
    /\ UNCHANGED <<buildVars, imVars, identity, writer, readers, calls, freed>>

\* lines 156-157 (and 165): insert under the write lock, then the assert
InsertStep(t) ==
    /\ pc[t] = "reg_insert"
    /\ writer = {t}
    /\ LET r == Registry_register(map, cur[t].id, cur[t].value[1])
       IN  /\ map' = r.map
           /\ res' = [res EXCEPT ![t] =
                        Result(cur[t], cur[t].id, r.out, None, FALSE, r.slot)]
           /\ issued' = IF r.out = "ok" /\ cur[t].op = "register_local"
                        THEN issued (+) One([id |-> cur[t].id, value |-> cur[t].value])
                        ELSE issued
    /\ writer' = {}
    /\ pc' = [pc EXCEPT ![t] = "idle"]
    /\ cur' = [cur EXCEPT ![t] = NoCall]
    /\ UNCHANGED <<buildVars, imVars, identity, readers, calls, freed>>

\* line 170: self.identity.lock().free(id.id()), the guard dropped at the end of
\* it or by the unwinding panic
FreeStep(t) ==
    /\ pc[t] = "un_free"
    /\ identity = {t}
    /\ LET f == IdentityManager_free(free, epochs, debug, epochMod, cur[t].id)
       IN  /\ free' = f.free
           /\ epochs' = f.epochs
           /\ IF f.out = "ok"
              THEN /\ freed' = freed (+) One(cur[t].id)
                   /\ pc' = [pc EXCEPT ![t] = "rm_lock"]
                   /\ UNCHANGED <<cur, res>>
              ELSE /\ res' = [res EXCEPT ![t] =
                                Result(cur[t], cur[t].id, f.out, None, FALSE, None)]
                   /\ pc' = [pc EXCEPT ![t] = "idle"]
                   /\ cur' = [cur EXCEPT ![t] = NoCall]
                   /\ UNCHANGED freed
    /\ identity' = {}
    /\ UNCHANGED <<buildVars, map, writer, readers, calls, issued>>

\* lines 171-173: remove under the write lock, unwrap, then the assert_eq
RemoveStep(t) ==
    /\ pc[t] = "rm_remove"
    /\ writer = {t}
    /\ LET r == Registry_remove(map, cur[t].id)
       IN  /\ map' = r.map
           /\ res' = [res EXCEPT ![t] =
                        Result(cur[t], cur[t].id, r.out, r.ret, FALSE, r.slot)]
    /\ writer' = {}
    /\ pc' = [pc EXCEPT ![t] = "idle"]
    /\ cur' = [cur EXCEPT ![t] = NoCall]
    /\ UNCHANGED <<buildVars, imVars, identity, readers, calls, issued, freed>>

\* registry.read().contains(id) / registry.read()[id] under the read lock
ReadStep(t) ==
    /\ pc[t] = "rd_read"
    /\ t \in readers
    /\ res' = [res EXCEPT ![t] =
                 IF cur[t].op = "contains"
                 THEN Result(cur[t], cur[t].id, "ok", None,
                             Storage_contains(map, cur[t].id), None)
                 ELSE LET g == Storage_index(map, cur[t].id)
                      IN  Result(cur[t], cur[t].id, g.out, g.ret, g.out = "ok", None)]
    /\ readers' = readers \ {t}
    /\ pc' = [pc EXCEPT ![t] = "idle"]
    /\ cur' = [cur EXCEPT ![t] = NoCall]
    /\ UNCHANGED <<buildVars, imVars, map, identity, writer, calls, issued, freed>>

(* ------------------- Registry with feature "local" -------------------- *)
\* callers hold the handles register_local returned to them, live or stale
Next ==
    \E t \in Threads :
        \/ StartRegisterLocal(t)
        \/ \E id \in IssuedIds : StartUnregister(t, id)
        \/ \E id \in IssuedIds : StartContains(t, id)
        \/ \E id \in IssuedIds : StartGet(t, id)
        \/ LockIdentity(t)
        \/ AllocStep(t)
        \/ FreeStep(t)
        \/ LockWrite(t)
        \/ InsertStep(t)
        \/ RemoveStep(t)
        \/ LockRead(t)
        \/ ReadStep(t)

Spec == Init /\ [][Next]_vars

(* -------- Registry with feature "local", register_local only ---------- *)
\* every thread makes EachCalls calls of register_local, nothing else
StartRegisterLocalEach(t) ==
    /\ local
    /\ calls[t] < EachCalls
    /\ BeginCall(t, Call("register_local", NoId, Some(Fresh(t))), "rl_lock")

NextReg ==
    \E t \in Threads :
        \/ StartRegisterLocalEach(t)
        \/ LockIdentity(t)
        \/ AllocStep(t)
        \/ LockWrite(t)
        \/ InsertStep(t)

SpecReg == Init /\ [][NextReg]_vars

(* ------------- Registry without feature "local" ----------------------- *)
\* the identities a remote client may send
ExtIds == {NewId(i, e) : i \in 0..(NumExtIndices - 1), e \in 1..NumExtEpochs}

InitExt ==
    /\ debug \in BOOLEAN
    /\ local = FALSE
    /\ epochMod = WideEpochMod
    /\ InitRegistry

NextExt ==
    \E t \in Threads :
        \/ \E id \in ExtIds : StartRegister(t, id)
        \/ \E id \in ExtIds : StartUnregister(t, id)
        \/ LockWrite(t)
        \/ InsertStep(t)
        \/ RemoveStep(t)

SpecExt == InitExt /\ [][NextExt]_vars

(* ---------------------- a bare IdentityManager ------------------------ *)
\* alloc and free take &mut self: one owner, whole calls, no lock
Owner == 1

IMCall(c, id, out) ==
    /\ Started < MaxIMCalls
    /\ calls' = [calls EXCEPT ![Owner] = @ + 1]
    /\ res' = [res EXCEPT ![Owner] = Result(c, id, out, None, FALSE, None)]
    /\ UNCHANGED <<buildVars, map, lockVars, pc, cur>>

IMAlloc ==
    LET a == IdentityManager_alloc(free, epochs)
    IN  /\ free' = a.free
        /\ epochs' = a.epochs
        /\ issued' = issued (+) One([id |-> a.id, value |-> None])
        /\ UNCHANGED freed
        /\ IMCall(Call("alloc", NoId, None), a.id, "ok")

IMFree(id) ==
    LET f == IdentityManager_free(free, epochs, debug, epochMod, id)
    IN  /\ free' = f.free
        /\ epochs' = f.epochs
        /\ freed' = IF f.out = "ok" THEN freed (+) One(id) ELSE freed
        /\ UNCHANGED issued
        /\ IMCall(Call("free", id, None), id, f.out)

\* free is called with handles alloc returned, live or stale
NextIM ==
    \/ IMAlloc
    \/ \E id \in IssuedIds : IMFree(id)

SpecIM == Init /\ [][NextIM]_vars

\* free is called with any handle: indices up to one past the allocated ones,
\* epochs up to one past the stored ones
MaxEpoch(ep) == IF Len(ep) = 0 THEN 0 ELSE CHOOSE m \in Range(ep) : \A e \in Range(ep) : e <= m

AnyIds == {NewId(i, e) : i \in 0..Len(epochs), e \in 0..(MaxEpoch(epochs) + 1)}

NextIMAny ==
    \/ IMAlloc
    \/ \E id \in AnyIds : IMFree(id)

SpecIMAny == Init /\ [][NextIMAny]_vars

(* ====================================================================== *)
(*                              properties                                *)
(* ====================================================================== *)
Count(s, x) == Cardinality({i \in 1..Len(s) : s[i] = x})

\* how many times the handle id was handed out, and how many of these are live
IssuedCopies(id) ==
    LET es == {e \in BagToSet(issued) : e.id = id}
    IN  BagCardinality([e \in es |-> issued[e]])

LiveCopies(id) == IssuedCopies(id) - CopiesIn(id, freed)

LiveIds == {id \in IssuedIds : LiveCopies(id) > 0}

FreedIds == BagToSet(freed)

(* ------------------------------- C1 ----------------------------------- *)
\* C1: on one IdentityManager, whatever the sequence of alloc and of free calls
\* with handles alloc returned before, no live handle (returned by alloc, not
\* yet freed) was handed out twice, and no two live handles share an index.
C1_NoLiveAliasing ==
    /\ \A id \in IssuedIds : LiveCopies(id) \in {0, 1}
    /\ \A a, b \in LiveIds : a.index = b.index => a = b

\* two live handles, one of them on a reused index, after a stale free was refused
C1_Witness ==
    /\ \E a, b \in LiveIds : a # b /\ a.epoch > 1
    /\ res[Owner].op = "free"
    /\ res[Owner].out = "assert_eq_epoch"

(* ------------------------------- C8 ----------------------------------- *)
\* C8: when free(h) has succeeded and the very next call is free(h) again, that
\* call fails and changes nothing: h.index is in the free-list exactly once and
\* its stored epoch is h.epoch + 1, in a debug build and in a release build.
C8_SecondFreeFails ==
    [][ ( /\ res[Owner].op = "free"
          /\ res[Owner].out = "ok"
          /\ calls'[Owner] = calls[Owner] + 1
          /\ res'[Owner].op = "free"
          /\ res'[Owner].id = res[Owner].id )
        => ( /\ res'[Owner].out # "ok"
             /\ free' = free
             /\ epochs' = epochs
             /\ Count(free', res[Owner].id.index) = 1
             /\ epochs'[res[Owner].id.index + 1] = res[Owner].id.epoch + 1 ) ]_vars

\* a release build after alloc, free(h), free(h): the second free was refused by
\* the epoch assert, the index is free once
C8_Witness ==
    /\ ~debug
    /\ calls[Owner] = 3
    /\ res[Owner].op = "free"
    /\ res[Owner].out = "assert_eq_epoch"
    /\ res[Owner].id \in FreedIds
    /\ Count(free, res[Owner].id.index) = 1
    /\ epochs[res[Owner].id.index + 1] = res[Owner].id.epoch + 1

(* ------------------------------- C9 ----------------------------------- *)
\* C9 (as claimed): with free called on arbitrary handles, in a debug or a release
\* build, the free-list holds every index at most once.
C9_FreeListNoDuplicate ==
    \A i \in Range(free) : Count(free, i) = 1

(* ------------------------------- C2 ----------------------------------- *)
\* C2: a handle h2 that register_local returned with payload v2 and that has not
\* been freed resolves to v2, and every other handle h1 that register_local
\* returned earlier for the same index (unregistered since, its slot reused by
\* h2) is refused by contains and by lookup.
C2_ReusedSlotResolves ==
    \A e \in BagToSet(issued) :
        ~BagIn(e.id, freed) =>
            /\ Storage_index(map, e.id) = [out |-> "ok", ret |-> e.value]
            /\ Storage_contains(map, e.id)
            /\ \A h1 \in IssuedIds :
                   (h1.index = e.id.index /\ h1 # e.id) =>
                       /\ ~Storage_contains(map, h1)
                       /\ Storage_index(map, h1).out # "ok"

\* h1 was unregistered, register_local has just returned h2 on the same index,
\* h2 is live: a lookup of h1 is refused by the epoch assert, one of h2 yields v2
C2_Witness ==
    \E h1 \in FreedIds, e \in BagToSet(issued), t \in Threads :
        /\ ~BagIn(e.id, freed)
        /\ h1.index = e.id.index
        /\ e.id.epoch = h1.epoch + 1
        /\ res[t].op = "register_local"
        /\ res[t].id = e.id
        /\ res[t].out = "ok"
        /\ Storage_index(map, h1).out = "assert_eq_epoch"
        /\ ~Storage_contains(map, h1)
        /\ Storage_index(map, e.id).ret = e.value

(* ------------------------------- C3 ----------------------------------- *)
\* C3 (as claimed): once IdentityManager::free(h) has succeeded, contains(h) is
\* false and lookup with h fails in every later state, also while the unregister
\* that freed h has not yet reached the slot table.
C3_FreedNeverResolves ==
    \A h \in FreedIds :
        /\ ~Storage_contains(map, h)
        /\ Storage_index(map, h).out # "ok"

(* ------------------------------- C4 ----------------------------------- *)
\* C4: with every thread making EachCalls calls of register_local and no
\* unregister, every finished call has succeeded and the handles returned are
\* pairwise distinct.
Finished(t) == IF pc[t] = "idle" THEN calls[t] ELSE calls[t] - 1

RECURSIVE SumFinished(_)
SumFinished(n) == IF n = 0 THEN 0 ELSE Finished(n) + SumFinished(n - 1)

C4_DistinctHandles ==
    /\ BagCardinality(issued) = SumFinished(NumThreads)
    /\ Cardinality(IssuedIds) = BagCardinality(issued)
    /\ \A t \in Threads : res[t].out \in {"none", "ok"}

\* all NumThreads * EachCalls calls have returned
C4_Witness ==
    /\ \A t \in Threads : pc[t] = "idle" /\ calls[t] = EachCalls
    /\ Cardinality(IssuedIds) = NumThreads * EachCalls

(* ------------------------------- C5 ----------------------------------- *)
\* C5 (as claimed): in local-allocation mode an index in the free-list has no
\* payload in the slot table, in every state, inside unregister too.
C5_FreeIndexHasNoPayload ==
    \A i \in Range(free) : i \notin DOMAIN map

(* ------------------------------- C6 ----------------------------------- *)
\* C6 (as claimed): in local-allocation mode the epoch stored with a payload is
\* the allocator's current epoch of that index.
C6_PayloadEpochIsCurrent ==
    \A i \in DOMAIN map : i < Len(epochs) /\ map[i].epoch = epochs[i + 1]

(* ------------------------------- C7 ----------------------------------- *)
\* C7 (as claimed): register(h, v) on an occupied slot fails with the
\* AlreadyRegistered assert and leaves the slot table and the allocator as they
\* were.
C7_FailedRegisterChangesNothing ==
    [][ \A t \in Threads :
          ( /\ pc[t] = "reg_insert"
            /\ pc'[t] = "idle"
            /\ cur[t].id.index \in DOMAIN map )
          => ( /\ res'[t].out = "assert_old_is_none"
               /\ map' = map
               /\ free' = free
               /\ epochs' = epochs ) ]_vars

(* ------------------------------- C10 ---------------------------------- *)
\* C10: an unregister(h) that finds at h.index a payload stored under another
\* epoch than h.epoch fails by the epoch assert and returns nothing; an
\* unregister that returns a payload returns the one stored under h.epoch.
C10_UnregisterChecksEpoch ==
    \A t \in Threads :
        res[t].op = "unregister" =>
            /\ (res[t].slot # None /\ res[t].slot[1].epoch # res[t].id.epoch)
                   => (res[t].out = "assert_eq_epoch" /\ res[t].ret = None)
            /\ res[t].out = "ok"
                   => /\ res[t].slot # None
                      /\ res[t].slot[1].epoch = res[t].id.epoch
                      /\ res[t].ret = Some(res[t].slot[1].value)

\* an unregister has met a payload of another epoch and was refused
C10_Witness ==
    \E t \in Threads :
        /\ res[t].op = "unregister"
        /\ res[t].slot # None
        /\ res[t].slot[1].epoch # res[t].id.epoch
        /\ res[t].out = "assert_eq_epoch"

(* ------------------------------- C11 ---------------------------------- *)
\* handles of an index the allocator has not issued yet, with the epoch no
\* index has had and the epoch a new index gets
NeverIds == {NewId(Len(epochs), e) : e \in 0..1}

\* the Registry with feature "local", callers also passing never-issued handles
\* to unregister
NextNever ==
    \/ Next
    \/ \E t \in Threads, id \in NeverIds : StartUnregister(t, id)

SpecNever == Init /\ [][NextNever]_vars

\* C11: an unregister(h) that reaches the allocator while h.index is not below
\* the number of indices issued ends by the bounds check of epochs[index], the
\* same way whatever the build and the rest of the state; it returns no payload,
\* does not go on to the slot table, and leaves allocator and slot table as
\* they were.
C11_NeverAllocatedFails ==
    [][ \A t \in Threads :
          ( /\ pc[t] = "un_free"
            /\ pc'[t] # "un_free"
            /\ cur[t].id.index >= Len(epochs) )
          => ( /\ pc'[t] = "idle"
               /\ res'[t].op = "unregister"
               /\ res'[t].id = cur[t].id
               /\ res'[t].out = "index_out_of_bounds"
               /\ res'[t].ret = None
               /\ res'[t].slot = None
               /\ free' = free
               /\ epochs' = epochs
               /\ map' = map ) ]_vars

\* an unregister of a never-issued index has been refused, next to a live payload
C11_Witness ==
    \E t \in Threads :
        /\ res[t].op = "unregister"
        /\ res[t].out = "index_out_of_bounds"
        /\ res[t].id.index >= Len(epochs)
        /\ DOMAIN map # {}

(* ------------------------------- C12 ---------------------------------- *)
\* C12: when free(h) has succeeded (h just returned by alloc, or any handle) and
\* the very next call is alloc, it returns h.index with epoch h.epoch + 1: the
\* index freed last is the one reused.
C12_AllocReusesLastFreed ==
    [][ ( /\ res[Owner].op = "free"
          /\ res[Owner].out = "ok"
          /\ calls'[Owner] = calls[Owner] + 1
          /\ res'[Owner].op = "alloc" )
        => res'[Owner].id = NewId(res[Owner].id.index, res[Owner].id.epoch + 1) ]_vars

\* alloc has just returned an index freed before, while an index freed earlier
\* is still in the free-list
C12_Witness ==
    /\ res[Owner].op = "alloc"
    /\ res[Owner].id.epoch > 1
    /\ BagIn(NewId(res[Owner].id.index, res[Owner].id.epoch - 1), freed)
    /\ Len(free) > 0

(* ------------------------------- C14 ---------------------------------- *)
\* C14: across every step of alloc and free calls no stored epoch decreases:
\* alloc leaves the stored epochs of the existing indices as they are, a free(h)
\* that succeeds raises the epoch of h.index by exactly 1 and no other, a free
\* that fails changes none.
C14_EpochsOnlyGrow ==
    [][ /\ Len(epochs') >= Len(epochs)
        /\ \A i \in 1..Len(epochs) : epochs'[i] >= epochs[i]
        /\ res'[Owner].op = "alloc"
               => \A i \in 1..Len(epochs) : epochs'[i] = epochs[i]
        /\ (res'[Owner].op = "free" /\ res'[Owner].out = "ok")
               => /\ Len(epochs') = Len(epochs)
                  /\ \A i \in 1..Len(epochs) :
                         epochs'[i] = IF i = res'[Owner].id.index + 1
                                      THEN epochs[i] + 1 ELSE epochs[i]
        /\ (res'[Owner].op = "free" /\ res'[Owner].out # "ok")
               => epochs' = epochs ]_vars

\* an index has been freed twice, another one once: the epochs are 3 and 2
C14_Witness ==
    /\ \E i \in 1..Len(epochs) : epochs[i] >= 3
    /\ \E i \in 1..Len(epochs) : epochs[i] = 2
    /\ res[Owner].op = "free"
    /\ res[Owner].out = "ok"

(* ------------------------------- C13 ---------------------------------- *)
\* the handles a caller may probe: those a remote client may send, and handles
\* of an index past them, with an epoch no registration uses and one they use
ProbeIds == ExtIds \cup {NewId(NumExtIndices, e) : e \in 0..1}

\* the slot tables register and unregister can leave behind without feature
\* "local": any set of the indices occupied, each under any epoch, the payload
\* of a slot told apart by its index
ProbeTables ==
    UNION { {[i \in D |-> Entry(<<0, i>>, f[i])] : f \in [D -> 1..NumExtEpochs]} :
            D \in SUBSET (0..(NumExtIndices - 1)) }

\* (Storage has no debug assertion: one build stands for both)
InitProbe ==
    /\ debug = FALSE
    /\ local = FALSE
    /\ epochMod = WideEpochMod
    /\ free = <<>>
    /\ epochs = <<>>
    /\ map \in ProbeTables
    /\ identity = {}
    /\ writer = {}
    /\ readers = {}
    /\ pc = [t \in Threads |-> "idle"]
    /\ cur = [t \in Threads |-> NoCall]
    /\ res = [t \in Threads |-> NoResult]
    /\ calls = [t \in Threads |-> 0]
    /\ issued = EmptyBag
    /\ freed = EmptyBag

\* lookups by any handle on such a table
StartProbe(t, op, id) ==
    /\ Started < MaxProbeCalls
    /\ BeginCall(t, Call(op, id, None), "rd_lock")

NextProbe ==
    \E t \in Threads :
        \/ \E id \in ProbeIds : StartProbe(t, "contains", id)
        \/ \E id \in ProbeIds : StartProbe(t, "get", id)
        \/ LockRead(t)
        \/ ReadStep(t)

SpecProbe == InitProbe /\ [][NextProbe]_vars

\* the slot at id.index holds a payload stored under id.epoch
Holds(m, id) == id.index \in DOMAIN m /\ m[id.index].epoch = id.epoch

\* C13: whatever the slot table and the handle, index (get / get_mut) succeeds
\* exactly when contains is true, exactly when the slot at h.index holds a
\* payload stored under h.epoch; it then yields that payload, and otherwise
\* panics while contains answers false; neither changes the table.
C13_GetIffContains ==
    [][ \A t \in Threads :
          (pc[t] = "rd_read" /\ pc'[t] = "idle")
          => /\ map' = map
             /\ cur[t].op = "get"
                    => /\ (res'[t].out = "ok") = Holds(map, cur[t].id)
                       /\ (res'[t].out = "ok") = Storage_contains(map, cur[t].id)
                       /\ res'[t].out = "ok"
                              => res'[t].ret = Some(map[cur[t].id.index].value)
                       /\ res'[t].out # "ok"
                              => /\ res'[t].ret = None
                                 /\ res'[t].out \in {"key_not_present", "assert_eq_epoch"}
             /\ cur[t].op = "contains"
                    => /\ res'[t].out = "ok"
                       /\ res'[t].hit = Holds(map, cur[t].id)
                       /\ res'[t].hit = (Storage_index(map, cur[t].id).out = "ok") ]_vars

\* a lookup by a stale handle of an occupied slot has been refused by the epoch
\* assert, while contains is false for it and true for the handle of the payload
C13_Witness ==
    \E t \in Threads :
        /\ res[t].op = "get"
        /\ res[t].out = "assert_eq_epoch"
        /\ res[t].id.index \in DOMAIN map
        /\ ~Storage_contains(map, res[t].id)
        /\ Storage_contains(map, NewId(res[t].id.index, map[res[t].id.index].epoch))
(* ------------------------------- C15 ---------------------------------- *)
\* the steps of the calls in flight: lock acquisitions and steps under a lock
Proceed(t) ==
    \/ LockIdentity(t)
    \/ AllocStep(t)
    \/ FreeStep(t)
    \/ LockWrite(t)
    \/ InsertStep(t)
    \/ RemoveStep(t)
    \/ LockRead(t)
    \/ ReadStep(t)

\* C15: no thread holds the allocator mutex together with the slot-table lock;
\* register_local and unregister reach the slot-table lock only after their
\* step under the allocator mutex (the identity allocated, the identity freed);
\* and whenever a call is unfinished some thread can take a step, so no state
\* where every unfinished thread waits for a lock is reachable
C15_LockOrderNoDeadlock ==
    /\ identity \cap (writer \cup readers) = {}
    /\ \A t \in Threads :
          /\ (pc[t] \in {"rl_lock", "rl_alloc", "un_lock", "un_free"})
                => t \notin (writer \cup readers)
          /\ (pc[t] \in {"reg_lock", "reg_insert"} /\ cur[t].op = "register_local")
                => (cur[t].id # NoId /\ t \notin identity)
          /\ (local /\ pc[t] \in {"rm_lock", "rm_remove"})
                => (BagIn(cur[t].id, freed) /\ t \notin identity)
    /\ (\E t \in Threads : pc[t] # "idle") => (\E t \in Threads : ENABLED Proceed(t))

\* one thread's unregister, past its step under the allocator mutex, waits for
\* the slot-table lock while another thread's register_local holds it
C15_Witness ==
    \E t, u \in Threads :
        /\ t # u
        /\ pc[t] = "rm_lock"
        /\ cur[t].op = "unregister"
        /\ writer = {u}
        /\ cur[u].op = "register_local"
        /\ ~ENABLED Proceed(t)
(* ------------------------------- C16 ---------------------------------- *)
\* fair scheduling: a thread that holds a lock and is about to run its step
\* under it is eventually scheduled (its step stays enabled); fair hand-off: a
\* thread waiting for a lock that is free again and again eventually gets it
\* (parking_lot hands a lock over to a waiter after a bounded time)
Fairness ==
    \A t \in Threads :
        /\ WF_vars(AllocStep(t))
        /\ WF_vars(FreeStep(t))
        /\ WF_vars(InsertStep(t))
        /\ WF_vars(RemoveStep(t))
        /\ WF_vars(ReadStep(t))
        /\ SF_vars(LockIdentity(t))
        /\ SF_vars(LockWrite(t))
        /\ SF_vars(LockRead(t))

\* the calls of Next, MaxLiveCalls of them
StartLive(t, c, at) ==
    /\ local
    /\ Started < MaxLiveCalls
    /\ BeginCall(t, c, at)

NextLive ==
    \E t \in Threads :
        \/ StartLive(t, Call("register_local", NoId, Some(Fresh(t))), "rl_lock")
        \/ \E id \in IssuedIds : StartLive(t, Call("unregister", id, None), "un_lock")
        \/ \E id \in IssuedIds : StartLive(t, Call("contains", id, None), "rd_lock")
        \/ \E id \in IssuedIds : StartLive(t, Call("get", id, None), "rd_lock")
        \/ LockIdentity(t)
        \/ AllocStep(t)
        \/ FreeStep(t)
        \/ LockWrite(t)
        \/ InsertStep(t)
        \/ RemoveStep(t)
        \/ LockRead(t)
        \/ ReadStep(t)

SpecLive == Init /\ [][NextLive]_vars /\ Fairness

\* C16: under fair scheduling and fair lock hand-off, every call a thread has
\* started is eventually finished, with a result or with a panic
C16_EveryCallCompletes ==
    \A t \in Threads : (pc[t] # "idle") ~> (pc[t] = "idle")

\* a thread's register_local waits for the slot-table write lock while another
\* thread's register_local holds it
C16_Witness ==
    \E t, u \in Threads :
        /\ t # u
        /\ pc[t] = "reg_lock"
        /\ cur[t].op = "register_local"
        /\ writer = {u}
        /\ pc[u] = "reg_insert"
        /\ ~ENABLED LockWrite(t)
(* ------------------------------- C17 ---------------------------------- *)
\* C17 (as claimed): an unregister(h) of a handle h = register_local(v) that no
\* unregister has freed yet passes the allocator, returns exactly v, and leaves
\* the slot at h.index empty, h.index in the free-list and the stored epoch of
\* h.index at h.epoch + 1.
C17_UnregisterReturnsPayload ==
    [][ \A t \in Threads : \A e \in BagToSet(issued) :
          (cur[t].op = "unregister" /\ cur[t].id = e.id) =>
             /\ (pc[t] = "un_free" /\ pc'[t] # "un_free" /\ ~BagIn(e.id, freed))
                    => pc'[t] = "rm_lock"
             /\ (pc[t] = "rm_remove" /\ pc'[t] = "idle")
                    => /\ res'[t].out = "ok"
                       /\ res'[t].ret = e.value
                       /\ e.id.index \notin DOMAIN map'
                       /\ e.id.index \in Range(free')
                       /\ epochs'[e.id.index + 1] = e.id.epoch + 1 ]_vars
(* ------------------------------- C19 ---------------------------------- *)
\* unregister(id) by a caller that got id from a completed register_local, when
\* no unregister of id has been started before
StartUnregisterOnce(t, id) ==
    /\ ~BagIn(id, freed)
    /\ \A u \in Threads : ~(cur[u].op = "unregister" /\ cur[u].id = id)
    /\ \A u \in Threads : ~(res[u].op = "unregister" /\ res[u].id = id)
    /\ StartUnregister(t, id)

\* threads running register_local and such unregister calls, nothing else
NextOnce ==
    \E t \in Threads :
        \/ StartRegisterLocal(t)
        \/ \E id \in IssuedIds : StartUnregisterOnce(t, id)
        \/ LockIdentity(t)
        \/ AllocStep(t)
        \/ FreeStep(t)
        \/ LockWrite(t)
        \/ InsertStep(t)
        \/ RemoveStep(t)

SpecOnce == Init /\ [][NextOnce]_vars

\* C19 (as claimed): with register_local and unregister running concurrently,
\* every handle unregistered at most once, no call fails: no register_local
\* ends in the AlreadyRegistered assert, no unregister finds its slot empty or
\* under another epoch.
C19_NoCallFails ==
    \A t \in Threads : res[t].out \in {"none", "ok"}
(* ------------------------------- C20 ---------------------------------- *)
\* C20 (as claimed): the step in which an unregister(h) fails leaves the slot
\* table as it was, payloads and epochs, and the allocator's free-list and epochs
\* too; without feature "local" a stale h does not remove the payload at h.index.
C20_FailedUnregisterChangesNothing ==
    [][ \A t \in Threads :
          ( /\ cur[t].op = "unregister"
            /\ pc[t] # "idle"
            /\ pc'[t] = "idle"
            /\ res'[t].out # "ok" )
          => ( /\ map' = map
               /\ free' = free
               /\ epochs' = epochs ) ]_vars
(* ------------------------------- C18 ---------------------------------- *)
\* a bare IdentityManager whose Epoch has WrapEpochMod values
InitWrap ==
    /\ debug \in BOOLEAN
    /\ local = TRUE
    /\ epochMod = WrapEpochMod
    /\ InitRegistry

SpecWrap == InitWrap /\ [][NextIM]_vars

\* the number of free calls of handles of index i that succeeded
Frees(i) ==
    LET hs == {h \in BagToSet(freed) : h.index = i}
    IN  BagCardinality([h \in hs |-> freed[h]])

\* a slot table holding one payload, registered under the handle g
TableOf(g) == Registry_register(<<>>, g, Fresh(Owner)).map

\* C18: the stored epoch of an index is 1 plus the number of frees of the
\* index, modulo the number of values of Epoch where the increment wraps (a
\* build without overflow checks), and below that number where it panics; alloc
\* hands out a handle a second time only where the increment wraps and only
\* after at least that many frees of its index; and a freed handle passes the
\* epoch check against the payload of a handle alloc returned just when the two
\* are equal in index and epoch.
C18_WrapAliases ==
    /\ \A i \in 0..(Len(epochs) - 1) :
          /\ epochs[i + 1] = (1 + Frees(i)) % epochMod
          /\ debug => 1 + Frees(i) < epochMod
    /\ \A h \in IssuedIds :
          IssuedCopies(h) >= 2 => (~debug /\ Frees(h.index) >= epochMod)
    /\ \A h \in FreedIds :
          res[Owner].op = "alloc" =>
             ( /\ Storage_contains(TableOf(res[Owner].id), h) = (h = res[Owner].id)
               /\ (Storage_index(TableOf(res[Owner].id), h).out = "ok") = (h = res[Owner].id)
               /\ h = res[Owner].id => IssuedCopies(h) >= 2 )

\* after as many frees of one index as Epoch has values, alloc has returned a
\* handle it had issued before and that was freed since, and that stale handle
\* resolves to the payload registered under the new one
C18_Witness ==
    /\ ~debug
    /\ res[Owner].op = "alloc"
    /\ BagIn(res[Owner].id, freed)
    /\ IssuedCopies(res[Owner].id) >= 2
    /\ Frees(res[Owner].id.index) = epochMod
    /\ Cardinality(LiveIds) = 1
    /\ Storage_index(TableOf(res[Owner].id), CHOOSE h \in FreedIds : h = res[Owner].id).out = "ok"

====
